---- MODULE Spec2Model ----
(***************************************************************************)
(* A model of podrefresh: the pod scan pipeline of main.go (_main), the    *)
(* digest resolution engine and authentication resolver of repo.go (Repo), *)
(* the append-only list of linklist.go (LinkList) and the single-flight    *)
(* loader the Repo builds its two caches from.                             *)
(*                                                                         *)
(* Strings of the program are sequences of one-character strings, so that  *)
(* strings.LastIndex / strings.Split and the registry client's reference   *)
(* parsing are computed, not assumed.  Indices are 1-based; 0 stands for   *)
(* Go's -1 ("not found").                                                  *)
(***************************************************************************)
EXTENDS Integers, Sequences, FiniteSets, TLC

\* ------------------------------------------------------------------ bounds

\* the number of pods the cluster holds in one run
MaxPods == 2

\* the number of pods the cluster holds in a run in which every pod has one
\* container and no pull secrets
MaxPlainPods == 4

\* ------------------------------------------------------- program constants

\* main.go: ListOptions{Limit: 16}
Limit == 16

\* main.go: make(chan *corev1.Pod, 100)
ChanCap == 100

\* ----------------------------------------------------------- string helpers

None == [kind |-> "none"]

Min(S) == CHOOSE x \in S : \A y \in S : x <= y

Max(S) == CHOOSE x \in S : \A y \in S : y <= x

Positions(s, c) == {i \in 1..Len(s) : s[i] = c}

\* strings.Index(s, c) + 1
Index(s, c) == IF Positions(s, c) = {} THEN 0 ELSE Min(Positions(s, c))

\* strings.LastIndex(s, c) + 1
LastIndex(s, c) == IF Positions(s, c) = {} THEN 0 ELSE Max(Positions(s, c))

Contains(s, c) == Positions(s, c) # {}

\* strings.Split(s, c)[k] for k = 0, 1: the piece before the first c, and the
\* piece between the first c and the second c (or the end of s).  Only
\* defined when the piece exists.
SplitPiece(s, c, k) ==
    LET first == Index(s, c)
        rest  == SubSeq(s, first + 1, Len(s))
        second == Index(rest, c)
    IN  IF k = 0
        THEN (IF first = 0 THEN s ELSE SubSeq(s, 1, first - 1))
        ELSE (IF second = 0 THEN rest ELSE SubSeq(rest, 1, second - 1))

\* len(strings.Split(s, c))
SplitCount(s, c) == Cardinality(Positions(s, c)) + 1

\* ------------------------------------------------------ repo.go: pure parts

\* repo.go getImageWithoutTag
getImageWithoutTag(image) ==
    IF LastIndex(image, ":") # 0
    THEN SubSeq(image, 1, LastIndex(image, ":") - 1)
    ELSE image

\* The registry client's reference parsing, as fetchDigest uses it
\* (name.ParseReference): the part after the last ":" is a tag unless it
\* holds a "/"; the part before the first "/" is the registry host iff it
\* holds a "." or a ":"; otherwise the registry is the default one and a
\* one-component repository gets the "library/" prefix.
DefaultRegistry == <<"index.docker.io">>

LibraryPrefix == <<"library", "/">>

RefBase(image) ==
    LET lc == LastIndex(image, ":")
    IN  IF lc # 0 /\ ~Contains(SubSeq(image, lc + 1, Len(image)), "/")
        THEN SubSeq(image, 1, lc - 1)
        ELSE image

RefHasRegistry(image) ==
    LET base == RefBase(image)
        sl   == Index(base, "/")
        head == SubSeq(base, 1, sl - 1)
    IN  sl # 0 /\ (Contains(head, ".") \/ Contains(head, ":"))

\* res.RegistryStr()
RegistryStr(image) ==
    LET base == RefBase(image)
    IN  IF RefHasRegistry(image)
        THEN SubSeq(base, 1, Index(base, "/") - 1)
        ELSE DefaultRegistry

\* res.RepositoryStr()
RepositoryStr(image) ==
    LET base == RefBase(image)
    IN  IF RefHasRegistry(image)
        THEN SubSeq(base, Index(base, "/") + 1, Len(base))
        ELSE IF Contains(base, "/") THEN base ELSE LibraryPrefix \o base

\* res.String(): the full repository name Resolve looks the association up by
ResourceString(image) == RegistryStr(image) \o <<"/">> \o RepositoryStr(image)

\* ------------------------------------------------- the cluster and registry
\* What the run's collaborators hold: the pods the cluster lists, the
\* secrets it stores, and the digest the registry publishes per image.

ImgA1 == <<"r", ".", "/", "a", ":", "1">>

ImgA2 == <<"r", ".", "/", "a", ":", "2">>

ImgB1 == <<"r", ".", "/", "b", ":", "1">>

Images == {ImgA1, ImgA2, ImgB1}

HostR == <<"r", ".">>

HostX == <<"x", ".">>

\* the hex component of the digest the registry reports (desc.Digest.Hex)
RegistryDigest(image) == IF image = ImgA1 THEN <<"b">> ELSE <<"a">>

IdA == <<"sha256", ":", "a">>

IdC == <<"sha256", ":", "c">>

\* the image ID of a container status that has none yet: no ":" in it
IdNone == <<>>

Status(name, image, id) == [Name |-> name, Image |-> image, ImageID |-> id]

Container(name, policy) == [Name |-> name, ImagePullPolicy |-> policy]

MkPod(name, phase, owners, containers, statuses, secrets) ==
    [Namespace |-> <<"ns">>, Name |-> name, Phase |-> phase,
     OwnerReferences |-> owners, Containers |-> containers,
     ContainerStatuses |-> statuses, ImagePullSecrets |-> secrets]

OneAlways == <<Container("c", "Always")>>

PodNames == {"bare", "job", "pend", "lazy", "pub", "priv", "anon", "mal",
             "old1", "old2", "fresh", "noid"}

\* the order in which the cluster lists pods (by name)
PodOrder == <<"anon", "bare", "fresh", "job", "lazy", "mal", "noid", "old1", "old2",
              "pend", "priv", "pub">>

\* the pods with one container and no pull secrets among them, in the same
\* order
PlainOrder == <<"fresh", "job", "old1", "old2", "pend">>

PodCatalog(p) ==
    CASE p = "bare" -> MkPod(p, "Running", <<>>, OneAlways,
                             <<Status("c", ImgA1, IdA)>>, <<>>)
      [] p = "job"  -> MkPod(p, "Running", <<"Job">>, OneAlways,
                             <<Status("c", ImgA1, IdA)>>, <<>>)
      [] p = "pend" -> MkPod(p, "Pending", <<"ReplicaSet">>, OneAlways,
                             <<Status("c", ImgA1, IdA)>>, <<>>)
      [] p = "lazy" -> MkPod(p, "Running", <<"ReplicaSet">>,
                             <<Container("c", "IfNotPresent")>>,
                             <<Status("c", ImgA1, IdA)>>, <<>>)
      [] p = "pub"  -> MkPod(p, "Running", <<"ReplicaSet">>,
                             <<Container("c", "Always"), Container("d", "Always"),
                               Container("e", "Never")>>,
                             <<Status("c", ImgA1, IdA), Status("e", ImgA1, IdA),
                               Status("d", ImgB1, IdA)>>,
                             <<>>)
      [] p = "priv" -> MkPod(p, "Running", <<"DaemonSet">>, OneAlways,
                             <<Status("c", ImgA1, IdA)>>,
                             <<<<"good">>, <<"nokey">>>>)
      [] p = "anon" -> MkPod(p, "Running", <<"StatefulSet">>, OneAlways,
                             <<Status("c", ImgA2, IdA)>>, <<<<"other">>>>)
      [] p = "mal"  -> MkPod(p, "Running", <<"ReplicaSet">>, OneAlways,
                             <<Status("c", ImgA2, IdC)>>, <<<<"bad">>>>)
      [] p = "fresh" -> MkPod(p, "Running", <<"ReplicaSet">>, OneAlways,
                              <<Status("c", ImgB1, IdA)>>, <<>>)
      [] p = "noid" -> MkPod(p, "Running", <<"ReplicaSet">>, OneAlways,
                             <<Status("c", ImgB1, IdNone)>>, <<>>)
      [] OTHER -> MkPod(p, "Running", <<"ReplicaSet">>, OneAlways,
                        <<Status("c", ImgB1, IdC)>>, <<>>)

\* the secrets of namespace ns: whether the data holds .dockerconfigjson,
\* whether that payload is valid JSON, and the auths it parses to
MkSecret(hasKey, validJson, auths) ==
    [hasKey |-> hasKey, validJson |-> validJson, auths |-> auths]

Cred(u, p) == [Username |-> u, Password |-> p]

ClusterSecret(namespace, name) ==
    CASE name = <<"good">>  -> MkSecret(TRUE, TRUE, [h \in {HostR} |-> Cred("u", "p")])
      [] name = <<"other">> -> MkSecret(TRUE, TRUE, [h \in {HostX} |-> Cred("v", "q")])
      [] name = <<"nokey">> -> MkSecret(FALSE, TRUE, <<>>)
      [] OTHER              -> MkSecret(TRUE, FALSE, <<>>)

SecretNames == {<<"good">>, <<"other">>, <<"nokey">>, <<"bad">>}

\* fmt.Sprintf("%s/%s", namespace, name) in Resolve
SecretKey(namespace, name) == namespace \o <<"/">> \o name

SecretKeys == {SecretKey(<<"ns">>, n) : n \in SecretNames}

MaxSecrets == Max({Len(PodCatalog(p).ImagePullSecrets) : p \in PodNames})

MaxStatuses == Max({Len(PodCatalog(p).ContainerStatuses) : p \in PodNames})

\* the keys the pullSecrets map can hold, and the keys Resolve can ask for
RepoKeys == {getImageWithoutTag(i) : i \in Images} \cup {ResourceString(i) : i \in Images}

\* ------------------------------------------------------ main.go: the filter

\* main.go allowedOwnerKinds
allowedOwnerKinds == {"ReplicaSet", "DaemonSet", "StatefulSet"}

\* main.go containerAlwaysPull: the names of the containers with policy Always
containerAlwaysPull(pod) ==
    {pod.Containers[i].Name : i \in {j \in 1..Len(pod.Containers) :
                                      pod.Containers[j].ImagePullPolicy = "Always"}}

\* Qualifies without the check of the owner's kind
QualifiesAnyOwner(pod) ==
    /\ pod.Phase = "Running"
    /\ Len(pod.OwnerReferences) # 0
    /\ containerAlwaysPull(pod) # {}

\* main.go, the consumer loop's four `continue`s
Qualifies(pod) ==
    /\ pod.Phase = "Running"
    /\ Len(pod.OwnerReferences) # 0
    /\ pod.OwnerReferences[1] \in allowedOwnerKinds
    /\ containerAlwaysPull(pod) # {}

\* the container statuses a pod task starts a check for
CheckedStatuses(pod) ==
    {i \in 1..Len(pod.ContainerStatuses) :
        pod.ContainerStatuses[i].Name \in containerAlwaysPull(pod)}

\* main.go: strings.Split(status.ImageID, ":")[1]
currentHash(imageID) == SplitPiece(imageID, ":", 1)

\* ------------------------------------------------------------- error values

Nil == [kind |-> "nil"]

NeedUpdateErr == [kind |-> "NeedUpdateErr"]

ListingFailed == [kind |-> "ListingFailed"]

\* a run-time panic (index out of range), which ends the process
Panic == [kind |-> "panic"]

Err(what) == [kind |-> "error", what |-> what]

\* repo.go foundSecret: the marker error that carries the matching entry
foundSecret(auth) == [kind |-> "foundSecret", auth |-> auth]

Ok(v) == [kind |-> "ok", val |-> v]

\* errgroup.Group: the first non-nil error a task returns is the group's error
FirstError(groupErr, taskErr) == IF groupErr = Nil THEN taskErr ELSE groupErr

\* ------------------------------------------------ the single-flight loader
\* loader.New(fetch, 0): a cache of successful results that never expire, a
\* mark for the keys with a fetch in flight, and (for the record) the result
\* of every fetch invocation per key, in order of completion.

NewLoader(keys) ==
    [cache    |-> [k \in keys |-> None],
     inflight |-> [k \in keys |-> FALSE],
     fetches  |-> [k \in keys |-> <<>>]]

\* LoaderProbe without the wait for the fetch in flight: every Load of an
\* uncached key fetches
LoaderProbeNoJoin(L, k) == IF L.cache[k].kind # "none" THEN "hit" ELSE "start"

\* LoaderProbe taking the zero expiry for "expired at once": no Load is
\* served from the cache
LoaderProbeExpired(L, k) == IF L.inflight[k] THEN "join" ELSE "start"

\* what Load(k) does on entry: return the cached value, join the fetch in
\* flight, or start a fetch
LoaderProbe(L, k) ==
    IF L.cache[k].kind # "none" THEN "hit"
    ELSE IF L.inflight[k] THEN "join"
    ELSE "start"

LoaderStart(L, k) == [L EXCEPT !.inflight[k] = TRUE]

\* LoaderStore keeping whatever the fetch returned, failures too
LoaderStoreAll(old, res) == res

\* the fetch for k returned res: a success is stored, a failure is not
LoaderStore(old, res) == IF res.kind = "ok" THEN res ELSE None

LoaderComplete(L, k, res) ==
    [L EXCEPT !.inflight[k] = FALSE,
              !.cache[k]    = LoaderStore(@, res),
              !.fetches[k]  = Append(@, res)]

\* the number of the fetch invocation a Load that starts or joins now gets
\* its result from
CurrentFlight(L, k) == Len(L.fetches[k]) + 1

\* the number of fetch invocations started for k so far
FetchCount(L, k) == Len(L.fetches[k]) + (IF L.inflight[k] THEN 1 ELSE 0)

\* ---------------------------------------------------- linklist.go: LinkList
\* Nodes are numbered in allocation order; 0 is the nil pointer.

EmptyList == [first |-> 0, last |-> 0, value |-> <<>>, next |-> <<>>]

\* ListAppend without l.last.next = item: the new node is not linked
ListAppendNoLink(l, v) ==
    LET item == Len(l.value) + 1
    IN  [first |-> IF l.last = 0 THEN item ELSE l.first, last |-> item,
         value |-> Append(l.value, v), next |-> Append(l.next, 0)]

\* linklist.go Append (under l.mu)
ListAppend(l, v) ==
    LET item == Len(l.value) + 1
    IN  IF l.last = 0
        THEN [first |-> item, last |-> item,
              value |-> Append(l.value, v), next |-> Append(l.next, 0)]
        ELSE [first |-> l.first, last |-> item,
              value |-> Append(l.value, v),
              next  |-> Append([l.next EXCEPT ![l.last] = item], 0)]

RECURSIVE walk(_, _)
walk(l, item) == IF item = 0 THEN <<>> ELSE <<l.value[item]>> \o walk(l, l.next[item])

\* linklist.go Iter: the values from first along next
ListIter(l) == walk(l, l.first)

PodInfo(pod) == [Namespace |-> pod.Namespace, Name |-> pod.Name]

\* -------------------------------------------------------------------- state

VARIABLES
    inventory,      \* the pods the cluster holds, in listing order
    lister,         \* the listing goroutine: pc, cont, page
    pods,           \* the buffered channel of pods
    podsClosed,     \* close(pods) has run
    eg,             \* the outer errgroup: its first error, and egCtx cancelled
    main,           \* the goroutine of _main: pc, di (deletes issued), ret
    err,            \* _main's variable err, which every pod task assigns
    ptask,          \* pod name -> the pod's task
    ctask,          \* <<pod, status index>> -> the container check
    slook,          \* <<pod, status index, secret index>> -> a lookup of Resolve
    pullSecrets,    \* repository key -> PullSecretInfo
    digestFetcher,  \* loader of image -> digest
    secretFetcher,  \* loader of namespace/name -> DockerAuths
    toBeDeleted,    \* the LinkList of PodInfo
    deleteCalls,    \* the delete calls issued to the cluster, in order
    probe           \* the calls of the repository-key specification

vars == <<inventory, lister, pods, podsClosed, eg, main, err, ptask, ctask, slook,
          pullSecrets, digestFetcher, secretFetcher, toBeDeleted, deleteCalls, probe>>

Range(seq) == {seq[i] : i \in 1..Len(seq)}

\* the container statuses of the pods of an inventory, and the secret
\* lookups a Resolve for one of them can start
CTasksOf(inv) ==
    {<<p, i>> : p \in Range(inv), i \in 1..MaxStatuses} \cap
    {t \in PodNames \X (1..MaxStatuses) : t[2] <= Len(PodCatalog(t[1]).ContainerStatuses)}

STasksOf(inv) == {<<t[1], t[2], j>> : t \in CTasksOf(inv), j \in 1..MaxSecrets}

CTasks == DOMAIN ctask

STasks == DOMAIN slook

Pods == DOMAIN ptask

IdleC == [pc |-> "idle", how |-> "", flight |-> 0, res |-> None, assoc |-> None,
          auth |-> None, egErr |-> Nil, ret |-> None]

IdleS == [pc |-> "idle", key |-> <<>>, how |-> "", flight |-> 0, res |-> None,
          ret |-> None]

IdleP == [pc |-> "idle", fegErr |-> Nil, ret |-> None]

\* the sub-sequences of PodOrder with at most MaxPods pods
RECURSIVE Pick(_, _)
Pick(order, n) ==
    IF order = <<>> \/ n = 0 THEN {<<>>}
    ELSE Pick(Tail(order), n) \cup {<<Head(order)>> \o s : s \in Pick(Tail(order), n - 1)}

Inventories == Pick(PodOrder, MaxPods) \cup Pick(PlainOrder, MaxPlainPods)

Init ==
    /\ inventory \in Inventories
    /\ lister = [pc |-> "list", cont |-> 0, page |-> <<>>, ret |-> None]
    /\ pods = <<>>
    /\ podsClosed = FALSE
    /\ eg = [err |-> Nil, cancelled |-> FALSE]
    /\ main = [pc |-> "range", di |-> 0, ret |-> None]
    /\ err = Nil
    /\ ptask = [p \in Range(inventory) |-> IdleP]
    /\ ctask = [t \in CTasksOf(inventory) |-> IdleC]
    /\ slook = [t \in STasksOf(inventory) |-> IdleS]
    /\ pullSecrets = [k \in RepoKeys |-> None]
    /\ digestFetcher = NewLoader(Images)
    /\ secretFetcher = NewLoader(SecretKeys)
    /\ toBeDeleted = EmptyList
    /\ deleteCalls = <<>>
    /\ probe = None

\* the process runs until a goroutine panics
Alive == main.pc # "panic"

\* ctx := context.Background(): never cancelled
ctx == [cancelled |-> FALSE]

\* eg, egCtx := errgroup.WithContext(ctx)
egCtx == [cancelled |-> eg.cancelled]

\* ------------------------------------------------- main.go: the lister task

\* eg.Go's wrapper when a task of the outer group returns e: the first
\* non-nil error is kept and cancels egCtx
GroupReturn(g, e) ==
    IF e = Nil THEN g
    ELSE [err |-> FirstError(g.err, e), cancelled |-> TRUE]

\* the sizes of the page a List call may return when `left` pods remain: the
\* server returns at most Limit items and may return fewer
PageSizes(left) == IF left = 0 THEN {0} ELSE {1, IF left < Limit THEN left ELSE Limit}

\* clientset.CoreV1().Pods("").List fails: the lister returns the error, its
\* deferred close(pods) runs, and the group records the error and cancels
ListFails ==
    /\ Alive
    /\ lister.pc = "list"
    /\ lister' = [lister EXCEPT !.pc = "done", !.ret = ListingFailed]
    /\ podsClosed' = TRUE
    /\ eg' = GroupReturn(eg, ListingFailed)
    /\ UNCHANGED <<inventory, pods, main, err, ptask, ctask, slook, pullSecrets,
                   digestFetcher, secretFetcher, toBeDeleted, deleteCalls, probe>>

\* List returns a page.  An empty page with an empty continue token ends the
\* lister (return nil, close(pods)).
ListPage ==
    /\ Alive
    /\ lister.pc = "list"
    /\ \E k \in PageSizes(Len(inventory) - lister.cont) :
          IF k = 0
          THEN /\ lister' = [lister EXCEPT !.pc = "done", !.ret = Nil]
               /\ podsClosed' = TRUE
          ELSE /\ lister' = [lister EXCEPT
                                !.pc = "send",
                                !.page = SubSeq(inventory, lister.cont + 1, lister.cont + k),
                                !.cont = lister.cont + k]
               /\ UNCHANGED podsClosed
    /\ UNCHANGED <<inventory, pods, eg, main, err, ptask, ctask, slook, pullSecrets,
                   digestFetcher, secretFetcher, toBeDeleted, deleteCalls, probe>>

\* select { case pods <- &pod }: the send, then the next item, the next page
\* (cont # "") or return nil with the deferred close(pods)
SendPod ==
    /\ Alive
    /\ lister.pc = "send"
    /\ Len(pods) < ChanCap
    /\ pods' = Append(pods, Head(lister.page))
    /\ IF Tail(lister.page) # <<>>
       THEN /\ lister' = [lister EXCEPT !.page = Tail(@)]
            /\ UNCHANGED podsClosed
       ELSE IF lister.cont < Len(inventory)
       THEN /\ lister' = [lister EXCEPT !.page = <<>>, !.pc = "list"]
            /\ UNCHANGED podsClosed
       ELSE /\ lister' = [lister EXCEPT !.page = <<>>, !.pc = "done", !.ret = Nil]
            /\ podsClosed' = TRUE
    /\ UNCHANGED <<inventory, eg, main, err, ptask, ctask, slook, pullSecrets,
                   digestFetcher, secretFetcher, toBeDeleted, deleteCalls, probe>>

\* select { case <-egCtx.Done(): return nil }
SendCancelled ==
    /\ Alive
    /\ lister.pc = "send"
    /\ egCtx.cancelled
    /\ lister' = [lister EXCEPT !.page = <<>>, !.pc = "done", !.ret = Nil]
    /\ podsClosed' = TRUE
    /\ UNCHANGED <<inventory, pods, eg, main, err, ptask, ctask, slook, pullSecrets,
                   digestFetcher, secretFetcher, toBeDeleted, deleteCalls, probe>>

\* ---------------------------------------------- main.go: the consumer loop

\* FirstPc without the len(secrets) > 0 guard
FirstPcAlwaysStore(pod) == "store"

\* the first step of a check: GetImageDigest stores the association only
\* when the pod has pull secrets
FirstPc(pod) == IF Len(pod.ImagePullSecrets) > 0 THEN "store" ELSE "load"

\* for pod := range pods: one pod is received and filtered; for a qualifying
\* pod eg.Go starts its task, which starts one check (feg.Go) per container
\* status whose name is in containerAlwaysPull
Consume ==
    /\ Alive
    /\ main.pc = "range"
    /\ pods # <<>>
    /\ pods' = Tail(pods)
    /\ LET p   == Head(pods)
           pod == PodCatalog(p)
       IN  IF Qualifies(pod)
           THEN /\ ptask' = [ptask EXCEPT ![p] = [IdleP EXCEPT !.pc = "wait"]]
                /\ ctask' = [t \in CTasks |->
                               IF t[1] = p /\ t[2] \in CheckedStatuses(pod)
                               THEN [IdleC EXCEPT !.pc = FirstPc(pod)]
                               ELSE ctask[t]]
           ELSE UNCHANGED <<ptask, ctask>>
    /\ UNCHANGED <<inventory, lister, podsClosed, eg, main, err, slook, pullSecrets,
                   digestFetcher, secretFetcher, toBeDeleted, deleteCalls, probe>>

\* the range loop ends when the channel is closed and drained
RangeEnds ==
    /\ Alive
    /\ main.pc = "range"
    /\ pods = <<>>
    /\ podsClosed
    /\ main' = [main EXCEPT !.pc = "wait"]
    /\ UNCHANGED <<inventory, lister, pods, podsClosed, eg, err, ptask, ctask, slook,
                   pullSecrets, digestFetcher, secretFetcher, toBeDeleted, deleteCalls, probe>>

\* AllTasksReturned waiting for the lister only
ListerReturned == lister.pc = "done"

\* eg.Wait() returns when the lister and every pod task started with eg.Go
\* have returned
AllTasksReturned ==
    /\ lister.pc = "done"
    /\ \A p \in Pods : ptask[p].pc \in {"idle", "done"}

\* err = eg.Wait(): every task of the outer group has returned.  Wait
\* cancels the group's context before it returns the group's error
MainWait ==
    /\ Alive
    /\ main.pc = "wait"
    /\ AllTasksReturned
    /\ err' = eg.err
    /\ eg' = [eg EXCEPT !.cancelled = TRUE]
    /\ main' = [main EXCEPT !.pc = "delete"]
    /\ UNCHANGED <<inventory, lister, pods, podsClosed, ptask, ctask, slook,
                   pullSecrets, digestFetcher, secretFetcher, toBeDeleted, deleteCalls, probe>>

\* DeleteCtx taking the context of the group
DeleteCtxOfGroup == egCtx

\* the context of the delete pass: Delete(ctx, ...)
DeleteCtx == ctx

\* the outcomes of a Delete call: a call on a cancelled context fails
DeleteOutcomes(c) == IF c.cancelled THEN {FALSE} ELSE BOOLEAN

\* DeleteNext returning from the pass at the first failing call
DeleteNextAbort ==
    /\ Alive
    /\ main.pc = "delete"
    /\ main.di < Len(ListIter(toBeDeleted))
    /\ \E ok \in DeleteOutcomes(DeleteCtx) :
          /\ deleteCalls' = Append(deleteCalls,
                                   [pod |-> ListIter(toBeDeleted)[main.di + 1], ok |-> ok,
                                    cancelled |-> DeleteCtx.cancelled])
          /\ main' = IF ok THEN [main EXCEPT !.di = @ + 1]
                     ELSE [main EXCEPT !.di = @ + 1, !.pc = "done", !.ret = Err("DeletionFailed")]
    /\ UNCHANGED <<inventory, lister, pods, podsClosed, eg, err, ptask, ctask, slook,
                   pullSecrets, digestFetcher, secretFetcher, toBeDeleted, probe>>

\* for podInfo := range toBeDeleted.Iter(): one Delete call per entry, on
\* the context it is given (recorded: whether that context was cancelled); a
\* failing call is logged and the loop goes on
DeleteNext ==
    /\ Alive
    /\ main.pc = "delete"
    /\ main.di < Len(ListIter(toBeDeleted))
    /\ \E ok \in DeleteOutcomes(DeleteCtx) :
          deleteCalls' = Append(deleteCalls,
                                [pod |-> ListIter(toBeDeleted)[main.di + 1], ok |-> ok,
                                 cancelled |-> DeleteCtx.cancelled])
    /\ main' = [main EXCEPT !.di = @ + 1]
    /\ UNCHANGED <<inventory, lister, pods, podsClosed, eg, err, ptask, ctask, slook,
                   pullSecrets, digestFetcher, secretFetcher, toBeDeleted, probe>>

\* return eg.Wait()
MainReturn ==
    /\ Alive
    /\ main.pc = "delete"
    /\ main.di = Len(ListIter(toBeDeleted))
    /\ main' = [main EXCEPT !.pc = "done", !.ret = eg.err]
    /\ UNCHANGED <<inventory, lister, pods, podsClosed, eg, err, ptask, ctask, slook,
                   pullSecrets, digestFetcher, secretFetcher, toBeDeleted, deleteCalls, probe>>

\* ------------------------------------------- repo.go: GetImageDigest, Resolve

PodOf(t) == PodCatalog(t[1])

StatusOf(t) == PodOf(t).ContainerStatuses[t[2]]

ImageOf(t) == StatusOf(t).Image

PullSecretInfo(namespace, secrets) ==
    [kind |-> "assoc", namespace |-> namespace, secrets |-> secrets]

Absent == [kind |-> "absent"]

Anonymous == [kind |-> "anonymous"]

Basic(auth) == [kind |-> "basic", Username |-> auth.Username, Password |-> auth.Password]

AuthError(e) == [kind |-> "error", err |-> e]

\* fetchDigest's wrapping of a failure of remote.Get
DescriptorError(cause) ==
    [kind |-> "error", what |-> "failed to get image descriptor", cause |-> cause]

\* GetImageDigest, len(secrets) > 0: r.pullSecrets.Store(key, ...)
StoreAssociation(t) ==
    /\ Alive
    /\ ctask[t].pc = "store"
    /\ pullSecrets' = [pullSecrets EXCEPT
                          ![getImageWithoutTag(ImageOf(t))] =
                              PullSecretInfo(PodOf(t).Namespace, PodOf(t).ImagePullSecrets)]
    /\ ctask' = [ctask EXCEPT ![t].pc = "load"]
    /\ UNCHANGED <<inventory, lister, pods, podsClosed, eg, main, err, ptask, slook,
                   digestFetcher, secretFetcher, toBeDeleted, deleteCalls, probe>>

\* CheckResult returning the error of GetImageDigest to the pod's group
CheckResultPropagate(res, imageID) ==
    IF res.kind # "ok" THEN res
    ELSE IF SplitCount(imageID, ":") < 2 THEN Panic
    ELSE IF currentHash(imageID) # res.val THEN NeedUpdateErr
    ELSE Nil

\* main.go: what a container check returns to feg once GetImageDigest
\* returned res: a failed lookup is logged and gives nil; a digest is compared
\* with the running one, which is element 1 of the split image ID - an index
\* out of range, and a panic, when the image ID holds no ":"
CheckResult(res, imageID) ==
    IF res.kind # "ok" THEN Nil
    ELSE IF SplitCount(imageID, ":") < 2 THEN Panic
    ELSE IF currentHash(imageID) # res.val THEN NeedUpdateErr
    ELSE Nil

\* the error of an errgroup.Group after the tasks that returned rets
GroupError(groupErr, rets) ==
    IF groupErr # Nil THEN groupErr
    ELSE IF \E e \in rets : e # Nil THEN CHOOSE e \in rets : e # Nil
    ELSE Nil

\* GetImageDigest returned res to check t: the check compares, returns to
\* feg and is done
Checked(task, t, res) ==
    [task EXCEPT !.pc = "done", !.res = res,
                 !.ret = CheckResult(res, StatusOf(t).ImageID)]

\* feg of every pod after the checks in `returned` returned
FegAfter(ct, returned) ==
    [p \in Pods |->
        [ptask[p] EXCEPT
            !.fegErr = GroupError(@, {ct[t].ret : t \in {x \in returned :
                                                           x[1] = p /\ ct[x].ret # Panic}})]]

\* the goroutine of _main after the checks in `returned` compared: a panic in
\* any goroutine ends the whole process
MainAfter(ct, returned) ==
    IF \E t \in returned : ct[t].ret = Panic
    THEN [main EXCEPT !.pc = "panic", !.ret = Panic]
    ELSE main

\* GetImageDigest: r.digestFetcher.Load(image), on entry.  A cached digest
\* is returned at once, and the check compares and returns
DigestLoad(t) ==
    /\ Alive
    /\ ctask[t].pc = "load"
    /\ LET k == ImageOf(t)
           how == LoaderProbe(digestFetcher, k)
       IN  CASE how = "hit" ->
                  /\ ctask' = [ctask EXCEPT
                                 ![t] = [Checked(@, t, digestFetcher.cache[k]) EXCEPT
                                            !.how = how,
                                            !.flight = Len(digestFetcher.fetches[k])]]
                  /\ ptask' = FegAfter(ctask', {t})
                  /\ main' = MainAfter(ctask', {t})
                  /\ UNCHANGED digestFetcher
             [] how = "join" ->
                  /\ ctask' = [ctask EXCEPT ![t].pc = "wait", ![t].how = how,
                                            ![t].flight = CurrentFlight(digestFetcher, k)]
                  /\ UNCHANGED <<digestFetcher, ptask, main>>
             [] OTHER ->
                  /\ ctask' = [ctask EXCEPT ![t].pc = "resolve", ![t].how = how,
                                            ![t].flight = CurrentFlight(digestFetcher, k)]
                  /\ digestFetcher' = LoaderStart(digestFetcher, k)
                  /\ UNCHANGED <<ptask, main>>
    /\ UNCHANGED <<inventory, lister, pods, podsClosed, eg, err, slook,
                   pullSecrets, secretFetcher, toBeDeleted, deleteCalls, probe>>

\* the secret lookups Resolve starts for the association it read
LookupsOf(t, assoc) == {<<t[1], t[2], j>> : j \in 1..Len(assoc.secrets)}

\* fetchDigest up to Resolve's r.pullSecrets.Load(res.String()): no
\* association gives anonymous; otherwise one eg.Go per secret reference
Resolve(t) ==
    /\ Alive
    /\ ctask[t].pc = "resolve"
    /\ LET a == pullSecrets[ResourceString(ImageOf(t))]
       IN  IF a.kind = "none"
           THEN /\ ctask' = [ctask EXCEPT ![t].pc = "registry",
                                          ![t].assoc = Absent,
                                          ![t].auth = Anonymous]
                /\ UNCHANGED slook
           ELSE /\ ctask' = [ctask EXCEPT ![t].pc = "lookups", ![t].assoc = a]
                /\ slook' = [s \in STasks |->
                               IF s \in LookupsOf(t, a)
                               THEN [IdleS EXCEPT
                                        !.pc = "load",
                                        !.key = SecretKey(a.namespace, a.secrets[s[3]])]
                               ELSE slook[s]]
    /\ UNCHANGED <<inventory, lister, pods, podsClosed, eg, main, err, ptask,
                   pullSecrets, digestFetcher, secretFetcher, toBeDeleted, deleteCalls, probe>>

\* LookupReturn taking any entry of the auths, whatever its host
LookupReturnAnyHost(res, registry) ==
    IF res.kind # "ok" THEN res
    ELSE IF DOMAIN res.val # {} THEN foundSecret(res.val[CHOOSE h \in DOMAIN res.val : TRUE])
    ELSE Nil

\* what a lookup of Resolve returns to its errgroup
LookupReturn(res, registry) ==
    IF res.kind # "ok" THEN res
    ELSE IF registry \in DOMAIN res.val THEN foundSecret(res.val[registry])
    ELSE Nil

\* the check whose Resolve started lookup s
CheckOf(s) == <<s[1], s[2]>>

\* r.secretFetcher.Load returned res to lookup s: the lookup returns to the
\* errgroup of Resolve and is done
LookedUp(look, s, res) ==
    [look EXCEPT !.pc = "done", !.res = res,
                 !.ret = LookupReturn(res, RegistryStr(ImageOf(CheckOf(s))))]

\* the errgroup of the Resolve of check t keeps the first non-nil error
ReturnTo(t, r) == [ctask EXCEPT ![t].egErr = FirstError(@, r)]

\* SecretLoad calling the fetch itself instead of going through the loader
SecretLoadDirect(s) ==
    /\ Alive
    /\ slook[s].pc = "load"
    /\ slook' = [slook EXCEPT ![s].pc = "fetch", ![s].how = "start",
                              ![s].flight = CurrentFlight(secretFetcher, slook[s].key)]
    /\ secretFetcher' = LoaderStart(secretFetcher, slook[s].key)
    /\ UNCHANGED <<inventory, lister, pods, podsClosed, eg, main, err, ptask, ctask,
                   pullSecrets, digestFetcher, toBeDeleted, deleteCalls, probe>>

\* r.secretFetcher.Load(secretName), on entry.  Cached auths are returned
\* at once, and the lookup returns
SecretLoad(s) ==
    /\ Alive
    /\ slook[s].pc = "load"
    /\ LET k == slook[s].key
           how == LoaderProbe(secretFetcher, k)
       IN  CASE how = "hit" ->
                  /\ slook' = [slook EXCEPT
                                 ![s] = [LookedUp(@, s, secretFetcher.cache[k]) EXCEPT
                                            !.how = how,
                                            !.flight = Len(secretFetcher.fetches[k])]]
                  /\ ctask' = ReturnTo(CheckOf(s), slook'[s].ret)
                  /\ UNCHANGED secretFetcher
             [] how = "join" ->
                  /\ slook' = [slook EXCEPT ![s].pc = "wait", ![s].how = how,
                                            ![s].flight = CurrentFlight(secretFetcher, k)]
                  /\ UNCHANGED <<secretFetcher, ctask>>
             [] OTHER ->
                  /\ slook' = [slook EXCEPT ![s].pc = "fetch", ![s].how = how,
                                            ![s].flight = CurrentFlight(secretFetcher, k)]
                  /\ secretFetcher' = LoaderStart(secretFetcher, k)
                  /\ UNCHANGED ctask
    /\ UNCHANGED <<inventory, lister, pods, podsClosed, eg, main, err, ptask,
                   pullSecrets, digestFetcher, toBeDeleted, deleteCalls, probe>>

\* repo.go fetchSecret once the cluster returned the secret: the
\* .dockerconfigjson key must be there and parse
ParseSecret(secret) ==
    IF ~secret.hasKey THEN Err("NoDockerConfigKey")
    ELSE IF ~secret.validJson THEN Err("MalformedDockerConfig")
    ELSE Ok(secret.auths)

\* repo.go fetchSecret: strings.SplitN(name, "/", 2), then Secrets(ns).Get,
\* which may fail
fetchSecret(name) ==
    LET namespace  == SplitPiece(name, "/", 0)
        secretName == SubSeq(name, Index(name, "/") + 1, Len(name))
    IN  {Err("SecretGetFailed"), ParseSecret(ClusterSecret(namespace, secretName))}

\* the fetch of a secret returns: the loader stores a success, the fetching
\* lookup returns, and every Load that joined the fetch has the result
SecretFetch(s) ==
    /\ Alive
    /\ slook[s].pc = "fetch"
    /\ \E res \in fetchSecret(slook[s].key) :
          /\ secretFetcher' = LoaderComplete(secretFetcher, slook[s].key, res)
          /\ slook' = [x \in STasks |->
                         IF x = s THEN LookedUp(slook[x], x, res)
                         ELSE IF slook[x].pc = "wait" /\ slook[x].key = slook[s].key
                         THEN [slook[x] EXCEPT !.pc = "ret", !.res = res]
                         ELSE slook[x]]
          /\ ctask' = ReturnTo(CheckOf(s), slook'[s].ret)
    /\ UNCHANGED <<inventory, lister, pods, podsClosed, eg, main, err, ptask,
                   pullSecrets, digestFetcher, toBeDeleted, deleteCalls, probe>>

\* a lookup that joined a fetch returns
SecretReturn(s) ==
    /\ Alive
    /\ slook[s].pc = "ret"
    /\ slook' = [slook EXCEPT ![s] = LookedUp(@, s, slook[s].res)]
    /\ ctask' = ReturnTo(CheckOf(s), slook'[s].ret)
    /\ UNCHANGED <<inventory, lister, pods, podsClosed, eg, main, err, ptask,
                   pullSecrets, digestFetcher, secretFetcher, toBeDeleted, deleteCalls, probe>>

\* ResolveResult falling back to anonymous when a lookup failed
ResolveResultFallback(e) ==
    IF e = Nil THEN Anonymous
    ELSE IF e.kind = "foundSecret" THEN Basic(e.auth)
    ELSE Anonymous

\* Resolve after eg.Wait(): nil is anonymous, a foundSecret is its basic
\* credential, any other error is returned
ResolveResult(e) ==
    IF e = Nil THEN Anonymous
    ELSE IF e.kind = "foundSecret" THEN Basic(e.auth)
    ELSE AuthError(e)

\* the fetch of an image by check t returns res: the loader stores a success,
\* and the fetching Load and every Load that joined it return res to their
\* checks, which compare and return
CompleteDigest(t, res, auth) ==
    LET returned == {t} \cup {x \in CTasks : ctask[x].pc = "wait" /\ ImageOf(x) = ImageOf(t)}
    IN  /\ digestFetcher' = LoaderComplete(digestFetcher, ImageOf(t), res)
        /\ ctask' = [x \in CTasks |->
                       IF x = t THEN [Checked(ctask[x], x, res) EXCEPT !.auth = auth]
                       ELSE IF x \in returned THEN Checked(ctask[x], x, res)
                       ELSE ctask[x]]
        /\ ptask' = FegAfter(ctask', returned)
        /\ main' = MainAfter(ctask', returned)

\* eg.Wait() in Resolve: every lookup has returned.  A credential lets
\* remote.Get go on to the registry; an error makes it, and fetchDigest, fail
ResolveWait(t) ==
    /\ Alive
    /\ ctask[t].pc = "lookups"
    /\ \A s \in LookupsOf(t, ctask[t].assoc) : slook[s].pc = "done"
    /\ LET auth == ResolveResult(ctask[t].egErr)
       IN  IF auth.kind = "error"
           THEN CompleteDigest(t, DescriptorError(auth.err), auth)
           ELSE /\ ctask' = [ctask EXCEPT ![t].pc = "registry", ![t].auth = auth]
                /\ UNCHANGED <<digestFetcher, ptask, main>>
    /\ UNCHANGED <<inventory, lister, pods, podsClosed, eg, err, slook,
                   pullSecrets, secretFetcher, toBeDeleted, deleteCalls, probe>>

\* remote.Get's answer from the registry: a failure, or the descriptor whose
\* digest hex fetchDigest returns
fetchDigest(image) ==
    {DescriptorError(Err("RegistryFetchFailed")), Ok(RegistryDigest(image))}

RegistryGet(t) ==
    /\ Alive
    /\ ctask[t].pc = "registry"
    /\ \E res \in fetchDigest(ImageOf(t)) : CompleteDigest(t, res, ctask[t].auth)
    /\ UNCHANGED <<inventory, lister, pods, podsClosed, eg, err, slook,
                   pullSecrets, secretFetcher, toBeDeleted, deleteCalls, probe>>

\* ----------------------------------------------------- main.go: the pod tasks

ChecksOf(p) == {t \in CTasks : t[1] = p}

\* err = feg.Wait(): every check of the pod has returned, and the result is
\* assigned to the variable err of _main, which all pod tasks share
PodJoin(p) ==
    /\ Alive
    /\ ptask[p].pc = "wait"
    /\ \A t \in ChecksOf(p) : ctask[t].pc \in {"idle", "done"}
    /\ err' = ptask[p].fegErr
    /\ ptask' = [ptask EXCEPT ![p].pc = "check"]
    /\ UNCHANGED <<inventory, lister, pods, podsClosed, eg, main, ctask, slook,
                   pullSecrets, digestFetcher, secretFetcher, toBeDeleted, deleteCalls, probe>>

\* if err == nil { return nil }: a read of the shared err
PodCheckNil(p) ==
    /\ Alive
    /\ ptask[p].pc = "check"
    /\ IF err = Nil
       THEN ptask' = [ptask EXCEPT ![p].pc = "done", ![p].ret = Nil]
       ELSE ptask' = [ptask EXCEPT ![p].pc = "is"]
    /\ UNCHANGED <<inventory, lister, pods, podsClosed, eg, main, err, ctask, slook,
                   pullSecrets, digestFetcher, secretFetcher, toBeDeleted, deleteCalls, probe>>

\* if !errors.Is(err, NeedUpdateErr): a second read of the shared err; when
\* it is NeedUpdateErr the pod is appended to toBeDeleted and the task
\* returns nil
PodCheckIs(p) ==
    /\ Alive
    /\ ptask[p].pc = "is"
    /\ IF err = NeedUpdateErr
       THEN /\ toBeDeleted' = ListAppend(toBeDeleted, PodInfo(PodCatalog(p)))
            /\ ptask' = [ptask EXCEPT ![p].pc = "done", ![p].ret = Nil]
       ELSE /\ ptask' = [ptask EXCEPT ![p].pc = "ret"]
            /\ UNCHANGED toBeDeleted
    /\ UNCHANGED <<inventory, lister, pods, podsClosed, eg, main, err, ctask, slook,
                   pullSecrets, digestFetcher, secretFetcher, deleteCalls, probe>>

\* return err: a third read of the shared err, returned to the outer group
PodReturnErr(p) ==
    /\ Alive
    /\ ptask[p].pc = "ret"
    /\ ptask' = [ptask EXCEPT ![p].pc = "done", ![p].ret = err]
    /\ eg' = GroupReturn(eg, err)
    /\ UNCHANGED <<inventory, lister, pods, podsClosed, main, err, ctask, slook,
                   pullSecrets, digestFetcher, secretFetcher, toBeDeleted, deleteCalls, probe>>

\* ------------------------------------------------------------ specification

Next ==
    \/ ListFails
    \/ ListPage
    \/ SendPod
    \/ SendCancelled
    \/ Consume
    \/ RangeEnds
    \/ MainWait
    \/ DeleteNext
    \/ MainReturn
    \/ \E t \in CTasks : StoreAssociation(t)
    \/ \E t \in CTasks : DigestLoad(t)
    \/ \E t \in CTasks : Resolve(t)
    \/ \E s \in STasks : SecretLoad(s)
    \/ \E s \in STasks : SecretFetch(s)
    \/ \E s \in STasks : SecretReturn(s)
    \/ \E t \in CTasks : ResolveWait(t)
    \/ \E t \in CTasks : RegistryGet(t)
    \/ \E p \in Pods : PodJoin(p)
    \/ \E p \in Pods : PodCheckNil(p)
    \/ \E p \in Pods : PodCheckIs(p)
    \/ \E p \in Pods : PodReturnErr(p)

Spec == Init /\ [][Next]_vars

\* The run under a scheduler that lets every goroutine that can take a step
\* take one, with every cluster and registry call returning: a step is taken
\* as long as one is possible.
FairSpec == Spec /\ WF_vars(Next)

\* ------------------------------------- repo.go: the repository key, by call
\* GetImageDigest's store of the association, applied to two image
\* references in turn: with and without a registry host, a host with a port,
\* and with and without a tag; then Resolve's lookup for the first of them.

RefRepos == {<<"r", ".", "/", "a">>, <<"r", ":", "5", "/", "a">>, <<"a">>}

RefTags == {<<>>, <<":", "1">>, <<":", "2">>}

RefInputs == {r \o t : r \in RefRepos, t \in RefTags}

RefSecrets == <<<<"good">>>>

\* sync.Map Store: the entry of the key is replaced or added
TableStore(table, key, info) ==
    {e \in table : e.key # key} \cup {[key |-> key, info |-> info]}

RefInit ==
    /\ inventory = <<>>
    /\ lister = [pc |-> "list", cont |-> 0, page |-> <<>>, ret |-> None]
    /\ pods = <<>>
    /\ podsClosed = FALSE
    /\ eg = [err |-> Nil, cancelled |-> FALSE]
    /\ main = [pc |-> "range", di |-> 0, ret |-> None]
    /\ err = Nil
    /\ ptask = [p \in Range(inventory) |-> IdleP]
    /\ ctask = [t \in CTasksOf(inventory) |-> IdleC]
    /\ slook = [t \in STasksOf(inventory) |-> IdleS]
    /\ pullSecrets = [k \in RepoKeys |-> None]
    /\ digestFetcher = NewLoader(Images)
    /\ secretFetcher = NewLoader(SecretKeys)
    /\ toBeDeleted = EmptyList
    /\ deleteCalls = <<>>
    /\ probe \in {[pc |-> "first", a |-> a, b |-> b, table |-> {}] :
                     a \in RefInputs, b \in RefInputs}

\* GetImageDigest(a, ns, secrets) with len(secrets) > 0: the store
RefStoreFirst ==
    /\ probe.pc = "first"
    /\ probe' = [probe EXCEPT
                    !.pc = "second",
                    !.table = TableStore(@, getImageWithoutTag(probe.a),
                                         PullSecretInfo(<<"ns">>, RefSecrets))]
    /\ UNCHANGED <<inventory, lister, pods, podsClosed, eg, main, err, ptask, ctask,
                   slook, pullSecrets, digestFetcher, secretFetcher, toBeDeleted,
                   deleteCalls>>

\* GetImageDigest(b, ns, secrets) with len(secrets) > 0: the store
RefStoreSecond ==
    /\ probe.pc = "second"
    /\ probe' = [probe EXCEPT
                    !.pc = "done",
                    !.table = TableStore(@, getImageWithoutTag(probe.b),
                                         PullSecretInfo(<<"ns">>, RefSecrets))]
    /\ UNCHANGED <<inventory, lister, pods, podsClosed, eg, main, err, ptask, ctask,
                   slook, pullSecrets, digestFetcher, secretFetcher, toBeDeleted,
                   deleteCalls>>

\* Resolve, called by the fetch of a's digest: r.pullSecrets.Load(res.String())
\* on the repository the registry client parsed from a
RefResolve ==
    /\ probe.pc = "done"
    /\ probe' = [pc |-> "resolved", a |-> probe.a, b |-> probe.b,
                 table |-> probe.table,
                 key |-> ResourceString(probe.a),
                 ok |-> \E e \in probe.table : e.key = ResourceString(probe.a)]
    /\ UNCHANGED <<inventory, lister, pods, podsClosed, eg, main, err, ptask, ctask,
                   slook, pullSecrets, digestFetcher, secretFetcher, toBeDeleted,
                   deleteCalls>>

RefNext == RefStoreFirst \/ RefStoreSecond \/ RefResolve

RefSpec == RefInit /\ [][RefNext]_vars

\* --------------------------- main.go: the running digest, by image ID
\* One container check from the return of GetImageDigest on: the image ID of
\* the container status is any short string over a letter of the algorithm
\* name, the colon and a digest letter; the registry's answer is a digest or
\* a failure.

MaxIdLen == 4

HashChars == {"s", ":", "a"}

ImageIDs == UNION {[1..n -> HashChars] : n \in 0..MaxIdLen}

LatestResults == {Ok(<<"a">>), Ok(<<"s">>), Err("registry")}

HashInit ==
    /\ inventory = <<>>
    /\ lister = [pc |-> "list", cont |-> 0, page |-> <<>>, ret |-> None]
    /\ pods = <<>>
    /\ podsClosed = FALSE
    /\ eg = [err |-> Nil, cancelled |-> FALSE]
    /\ main = [pc |-> "range", di |-> 0, ret |-> None]
    /\ err = Nil
    /\ ptask = [p \in Range(inventory) |-> IdleP]
    /\ ctask = [t \in CTasksOf(inventory) |-> IdleC]
    /\ slook = [t \in STasksOf(inventory) |-> IdleS]
    /\ pullSecrets = [k \in RepoKeys |-> None]
    /\ digestFetcher = NewLoader(Images)
    /\ secretFetcher = NewLoader(SecretKeys)
    /\ toBeDeleted = EmptyList
    /\ deleteCalls = <<>>
    /\ probe \in {[pc |-> "check", ImageID |-> id, res |-> res,
                   currentHash |-> None, ret |-> None] :
                     id \in ImageIDs, res \in LatestResults}

\* the check after GetImageDigest returned probe.res: a failure is logged
\* and the image ID is not looked at; otherwise the image ID is split,
\* element 1 is taken (a panic when there is none) and compared
HashCheck ==
    /\ probe.pc = "check"
    /\ probe' = [probe EXCEPT
                    !.pc = "checked",
                    !.currentHash =
                        IF probe.res.kind # "ok" THEN None
                        ELSE IF SplitCount(probe.ImageID, ":") < 2 THEN Panic
                        ELSE Ok(currentHash(probe.ImageID)),
                    !.ret = CheckResult(probe.res, probe.ImageID)]
    /\ UNCHANGED <<inventory, lister, pods, podsClosed, eg, main, err, ptask, ctask,
                   slook, pullSecrets, digestFetcher, secretFetcher, toBeDeleted,
                   deleteCalls>>

HashNext == HashCheck

HashSpec == HashInit /\ [][HashNext]_vars

\* ------------------------------------------------------------------ claims

\* the checks and lookups that are inside Load and run the fetch themselves
DigestFetchers(k) ==
    {t \in CTasks : ImageOf(t) = k /\ ctask[t].pc \in {"resolve", "lookups", "registry"}}

SecretFetchers(k) == {s \in STasks : slook[s].key = k /\ slook[s].pc = "fetch"}

\* the checks and lookups that are inside Load, fetching or waiting
DigestPending(k) == DigestFetchers(k) \cup {t \in CTasks : ImageOf(t) = k /\ ctask[t].pc = "wait"}

SecretPending(k) ==
    SecretFetchers(k) \cup {s \in STasks : slook[s].key = k /\ slook[s].pc = "wait"}

\* a Load that has returned, and the Loads that returned through a fetch
\* (started or joined)
Returned(task) == task.res.kind # "none"

ResultOf(L, k, task) ==
    /\ task.flight \in 1..Len(L.fetches[k])
    /\ task.res = L.fetches[k][task.flight]

\* C1: single-flight.  For both loaders and every key, at most one fetch
\* invocation is running at any time, every Load that is pending at the same
\* time as another is attached to that one invocation, and a Load that
\* returned has the result of the invocation it was attached to.
C1_SingleFlight ==
    /\ \A k \in Images :
          /\ Cardinality(DigestFetchers(k)) <= 1
          /\ \A t \in DigestPending(k) :
                /\ ctask[t].flight = CurrentFlight(digestFetcher, k)
                /\ digestFetcher.inflight[k]
          /\ \A t \in CTasks :
                (ImageOf(t) = k /\ Returned(ctask[t]) /\ ctask[t].how # "hit")
                    => ResultOf(digestFetcher, k, ctask[t])
    /\ \A k \in SecretKeys :
          /\ Cardinality(SecretFetchers(k)) <= 1
          /\ \A s \in SecretPending(k) :
                /\ slook[s].flight = CurrentFlight(secretFetcher, k)
                /\ secretFetcher.inflight[k]
          /\ \A s \in STasks :
                (slook[s].key = k /\ Returned(slook[s]) /\ slook[s].how # "hit")
                    => ResultOf(secretFetcher, k, slook[s])

\* two checks of one image overlapped in Load: one fetched, the other joined,
\* and both returned the result of the same invocation
C1_Witness ==
    \E t1, t2 \in CTasks :
        /\ ImageOf(t1) = ImageOf(t2)
        /\ ctask[t1].how = "start" /\ ctask[t2].how = "join"
        /\ Returned(ctask[t1]) /\ Returned(ctask[t2])
        /\ ctask[t1].flight = ctask[t2].flight
        /\ ctask[t1].res = ctask[t2].res

Last(seq) == seq[Len(seq)]

FailedLast(L, k) ==
    /\ ~L.inflight[k]
    /\ L.fetches[k] # <<>>
    /\ Last(L.fetches[k]).kind = "error"

\* C2: a failed fetch is not cached.  A Load of a key whose last fetch
\* failed (and none is in flight) starts a new fetch invocation instead of
\* returning the failure.
C2_FailedNotCached ==
    [][/\ \A t \in CTasks :
             (ctask[t].pc = "load" /\ ctask'[t].pc # "load"
                 /\ FailedLast(digestFetcher, ImageOf(t)))
             => (/\ ctask'[t].how = "start"
                 /\ digestFetcher'.inflight[ImageOf(t)]
                 /\ ctask'[t].flight = Len(digestFetcher.fetches[ImageOf(t)]) + 1)
       /\ \A s \in STasks :
             (slook[s].pc = "load" /\ slook'[s].pc # "load"
                 /\ FailedLast(secretFetcher, slook[s].key))
             => (/\ slook'[s].how = "start"
                 /\ secretFetcher'.inflight[slook[s].key]
                 /\ slook'[s].flight = Len(secretFetcher.fetches[slook[s].key]) + 1)]_vars

\* a key was fetched again after its first fetch had failed - an image and a
\* secret
C2_Witness ==
    /\ \E k \in Images :
          /\ Len(digestFetcher.fetches[k]) >= 2
          /\ digestFetcher.fetches[k][1].kind = "error"
    /\ \E k \in SecretKeys :
          /\ Len(secretFetcher.fetches[k]) >= 2
          /\ secretFetcher.fetches[k][1].kind = "error"

SuccessIsFinal(L, k) ==
    \A i \in 1..Len(L.fetches[k]) :
        L.fetches[k][i].kind = "ok" => (i = Len(L.fetches[k]) /\ ~L.inflight[k])

\* C3: with the zero expiry of both caches a successful fetch is final.
\* Once a fetch of a key succeeded no fetch of that key is started again, and
\* every Load that returns from the cache returns that fetch's value.
C3_SuccessNotRefetched ==
    /\ \A k \in Images :
          /\ SuccessIsFinal(digestFetcher, k)
          /\ \A t \in CTasks :
                (ImageOf(t) = k /\ ctask[t].how = "hit")
                    => (/\ ctask[t].res.kind = "ok"
                        /\ ctask[t].res = Last(digestFetcher.fetches[k]))
    /\ \A k \in SecretKeys :
          /\ SuccessIsFinal(secretFetcher, k)
          /\ \A s \in STasks :
                (slook[s].key = k /\ slook[s].how = "hit")
                    => (/\ slook[s].res.kind = "ok"
                        /\ slook[s].res = Last(secretFetcher.fetches[k]))

\* the fetchSecret invocations made for a key: the lookups whose Load ran
\* the fetch
SecretInvocations(k) == {s \in STasks : slook[s].key = k /\ slook[s].how = "start"}

\* a lookup of a later Resolve returned the auths an earlier one had fetched
C3_Witness ==
    \E s \in STasks :
        /\ slook[s].how = "hit"
        /\ Returned(slook[s])
        /\ Cardinality(SecretInvocations(slook[s].key)) = 1

Failures(L, k) == {i \in 1..Len(L.fetches[k]) : L.fetches[k][i].kind = "error"}

\* C4 as claimed: every pull secret is fetched at most once per run.
C4_FetchedAtMostOnce ==
    \A k \in SecretKeys : Cardinality(SecretInvocations(k)) <= 1

\* C4 as amended: at most one fetchSecret invocation per key runs at a time,
\* at most one succeeds and none follows it; every invocation but one is the
\* retry of a failed one.
C4_OneSuccessfulFetch ==
    \A k \in SecretKeys :
        /\ Cardinality(SecretFetchers(k)) <= 1
        /\ SuccessIsFinal(secretFetcher, k)
        /\ Cardinality(SecretInvocations(k))
              <= Cardinality(Failures(secretFetcher, k)) + 1

\* a secret was needed by two Resolve calls and fetched once, and another
\* secret was fetched again after a failed fetch
C4_Witness ==
    /\ \E k \in SecretKeys :
          /\ Cardinality({s \in STasks : slook[s].key = k /\ Returned(slook[s])}) >= 2
          /\ Cardinality(SecretInvocations(k)) = 1
    /\ \E k \in SecretKeys : Cardinality(SecretInvocations(k)) >= 2

\* the checks whose fetch has been through Resolve
Resolved(t) == ctask[t].auth.kind # "none"

NoLookupStarted(t) == \A s \in STasks : (s[1] = t[1] /\ s[2] = t[2]) => slook[s].pc = "idle"

\* C5 as claimed: Resolve for the image of a pod without imagePullSecrets
\* finds no association, returns anonymous and starts no secret lookup.
C5_NoSecretsNoAssociation ==
    \A t \in CTasks :
        (PodOf(t).ImagePullSecrets = <<>> /\ ctask[t].assoc.kind # "none")
            => (/\ ctask[t].assoc = Absent
                /\ ctask[t].auth = Anonymous
                /\ NoLookupStarted(t))

\* the associations the pods of the run store under a repository string
StoredFor(repo) ==
    {PullSecretInfo(PodCatalog(p).Namespace, PodCatalog(p).ImagePullSecrets) :
        p \in {q \in Pods :
                 /\ Qualifies(PodCatalog(q))
                 /\ PodCatalog(q).ImagePullSecrets # <<>>
                 /\ \E i \in CheckedStatuses(PodCatalog(q)) :
                       getImageWithoutTag(PodCatalog(q).ContainerStatuses[i].Image) = repo}}

\* C5 as amended: a Resolve that finds no association under the resource's
\* repository string returns anonymous and starts no secret lookup, and that
\* is what happens when no pod with pull secrets in the run uses the image's
\* repository: an association found is one that such a pod stored.
C5_AnonymousWithoutAssociation ==
    \A t \in CTasks :
        /\ ctask[t].assoc = Absent
              => ((Resolved(t) => ctask[t].auth = Anonymous) /\ NoLookupStarted(t))
        /\ ctask[t].assoc.kind = "assoc"
              => ctask[t].assoc \in StoredFor(ResourceString(ImageOf(t)))

\* the run of a pod without pull secrets ended, its image was fetched with
\* the anonymous credential, and no secret was fetched in the run
C5_Witness ==
    /\ main.pc = "done"
    /\ \E t \in CTasks :
          /\ PodOf(t).ImagePullSecrets = <<>>
          /\ ctask[t].assoc = Absent
          /\ ctask[t].auth = Anonymous
          /\ ctask[t].res.kind = "ok"
    /\ \A k \in SecretKeys : FetchCount(secretFetcher, k) = 0

\* the lookups of the Resolve of check t
Lookups(t) == LookupsOf(t, ctask[t].assoc)

HasEntry(res, t) == res.kind = "ok" /\ RegistryStr(ImageOf(t)) \in DOMAIN res.val

\* Resolve of check t has returned after looking secrets up
ResolveDone(t) == ctask[t].assoc.kind = "assoc" /\ Resolved(t)

\* C6: an association exists, every lookup succeeded and no secret has an
\* entry for the registry host: Resolve returns anonymous.
C6_NoEntryAnonymous ==
    \A t \in CTasks :
        (/\ ResolveDone(t)
         /\ \A s \in Lookups(t) : slook[s].res.kind = "ok" /\ ~HasEntry(slook[s].res, t))
            => ctask[t].auth = Anonymous

\* a Resolve found an association, its lookups succeeded without an entry
\* for the host, and it returned anonymous
C6_Witness ==
    \E t \in CTasks :
        /\ ResolveDone(t)
        /\ \A s \in Lookups(t) : slook[s].res.kind = "ok" /\ ~HasEntry(slook[s].res, t)
        /\ ctask[t].auth = Anonymous

\* C7 as claimed: exactly one associated secret has an entry for the host
\* and its lookup succeeded: Resolve returns that entry's basic credential,
\* whatever the other lookups did and in whatever order they returned.
C7_MatchWinsOverFailures ==
    \A t \in CTasks :
        ResolveDone(t) =>
            \A s \in Lookups(t) :
                (/\ HasEntry(slook[s].res, t)
                 /\ \A o \in Lookups(t) \ {s} : ~HasEntry(slook[o].res, t))
                    => ctask[t].auth = Basic(slook[s].res.val[RegistryStr(ImageOf(t))])

\* C8: some lookup failed and none found an entry for the host: Resolve
\* returns one of the failures, never anonymous, and the digest fetch of the
\* image fails with it.
C8_FailurePropagates ==
    \A t \in CTasks :
        (/\ ResolveDone(t)
         /\ \E s \in Lookups(t) : slook[s].res.kind = "error"
         /\ \A s \in Lookups(t) : ~HasEntry(slook[s].res, t))
            => (/\ ctask[t].auth.kind = "error"
                /\ \E s \in Lookups(t) : slook[s].res = ctask[t].auth.err
                /\ ctask[t].res = DescriptorError(ctask[t].auth.err)
                /\ ResultOf(digestFetcher, ImageOf(t), ctask[t]))

\* two kinds of lookup failure each reached a Resolve that returned it, and
\* the digest fetch failed
C8_Witness ==
    \A what \in {"SecretGetFailed", "MalformedDockerConfig"} :
        \E t \in CTasks :
            /\ ResolveDone(t)
            /\ \A s \in Lookups(t) : ~HasEntry(slook[s].res, t)
            /\ ctask[t].auth = AuthError(Err(what))
            /\ ctask[t].res.kind = "error"

Deleted == {deleteCalls[i].pod : i \in 1..Len(deleteCalls)}

\* C9: a pod that is not Running, has no owner reference, has a first owner
\* of another kind than ReplicaSet, DaemonSet, StatefulSet, or has no
\* container with policy Always is never in toBeDeleted and never deleted.
C9_FilteredNeverDeleted ==
    \A p \in Pods :
        LET pod == PodCatalog(p)
        IN  (\/ pod.Phase # "Running"
             \/ pod.OwnerReferences = <<>>
             \/ (pod.OwnerReferences # <<>>
                   /\ pod.OwnerReferences[1] \notin {"ReplicaSet", "DaemonSet", "StatefulSet"})
             \/ \A i \in 1..Len(pod.Containers) :
                   pod.Containers[i].ImagePullPolicy # "Always")
            => (/\ PodInfo(pod) \notin Range(ListIter(toBeDeleted))
                /\ PodInfo(pod) \notin Deleted)

\* a run listed a filtered pod next to an outdated one, deleted the outdated
\* one and ended
C9_Witness ==
    /\ main.pc = "done"
    /\ lister.ret = Nil
    /\ \E p \in Pods : ~Qualifies(PodCatalog(p))
    /\ deleteCalls # <<>>

Count(seq, v) == Cardinality({i \in 1..Len(seq) : seq[i] = v})

\* C10 as claimed: a qualifying pod one of whose checks found the running
\* digest different from the registry's is, once its task has returned, in
\* toBeDeleted exactly once.
C10_OutdatedAppendedOnce ==
    \A p \in Pods :
        (/\ ptask[p].pc = "done"
         /\ \E t \in ChecksOf(p) : ctask[t].ret = NeedUpdateErr)
            => Count(ListIter(toBeDeleted), PodInfo(PodCatalog(p))) = 1

\* C11 as claimed: a pod is in toBeDeleted only if one of its own checks
\* found the running digest different from the registry's.
C11_AppendedOnlyIfOutdated ==
    \A p \in Pods :
        PodInfo(PodCatalog(p)) \in Range(ListIter(toBeDeleted))
            => \E t \in ChecksOf(p) : ctask[t].ret = NeedUpdateErr

\* a check whose GetImageDigest returned an error
FetchFailed(t) == ctask[t].pc = "done" /\ ctask[t].res.kind = "error"

\* the digest-fetch errors and the secret errors they wrap
IsFetchError(e) == e.kind = "error"

\* the checks that return in this step with a failed digest fetch
FailingNow == {t \in CTasks : ctask[t].pc # "done" /\ FetchFailed(t)'}

C12_NoDecision ==
    /\ \A t \in CTasks : FetchFailed(t) => ctask[t].ret = Nil
    /\ \A p \in Pods :
          /\ ptask[p].fegErr \in {Nil, NeedUpdateErr}
          /\ ptask[p].fegErr = NeedUpdateErr
                => \E t \in ChecksOf(p) : ~FetchFailed(t) /\ ctask[t].ret = NeedUpdateErr
          /\ ~IsFetchError(ptask[p].ret)
    /\ ~IsFetchError(eg.err)
    /\ ~IsFetchError(err)
    /\ ~IsFetchError(main.ret)

C12_FailingStep ==
    \A t \in FailingNow :
        /\ eg' = eg /\ lister' = lister /\ pods' = pods /\ main' = main
        /\ toBeDeleted' = toBeDeleted
        /\ \A p \in Pods : ptask'[p] = ptask[p]
        /\ \A x \in CTasks : ImageOf(x) # ImageOf(t) => ctask'[x] = ctask[x]

C13_ListFailureIsFatal ==
    lister.ret = ListingFailed
        => (/\ lister.pc = "done"
            /\ podsClosed
            /\ egCtx.cancelled
            /\ main.pc = "done" => main.ret = ListingFailed)

\* the pods of the delete calls issued so far, in order
DeletedSeq == [i \in 1..Len(deleteCalls) |-> deleteCalls[i].pod]

C14_CallsFollowSequence ==
    /\ main.di = Len(deleteCalls)
    /\ DeletedSeq = SubSeq(ListIter(toBeDeleted), 1, Len(deleteCalls))
    /\ main.pc = "done" => DeletedSeq = ListIter(toBeDeleted)
    /\ main.pc \in {"range", "wait"} => deleteCalls = <<>>

C14_DeleteStep ==
    deleteCalls' # deleteCalls
        => (/\ Len(deleteCalls') = Len(deleteCalls) + 1
            /\ main'.pc = "delete"
            /\ eg' = eg /\ err' = err
            /\ ptask' = ptask /\ ctask' = ctask
            /\ toBeDeleted' = toBeDeleted)

C15_OnlyListingIsFatal ==
    /\ main.pc # "panic"
    /\ main.pc = "done"
          => (/\ main.ret \in {Nil, ListingFailed}
              /\ main.ret = ListingFailed => lister.ret = ListingFailed)

\* the pod tasks that append in this step
AppendingNow == {p \in Pods : ptask[p].pc = "is" /\ ptask'[p].pc = "done"}

\* Iter yields the value of every node allocated by an Append, once, in the
\* order of the Appends (nodes are numbered in that order)
C16_IterYieldsAppends == ListIter(toBeDeleted) = toBeDeleted.value

C16_AppendStep ==
    toBeDeleted' # toBeDeleted
        => \E p \in AppendingNow :
              /\ ListIter(toBeDeleted') =
                     Append(ListIter(toBeDeleted), PodInfo(PodCatalog(p)))
              /\ \A i \in 1..Len(toBeDeleted.value) :
                     toBeDeleted'.value[i] = toBeDeleted.value[i]
              /\ toBeDeleted.first # 0 => toBeDeleted'.first = toBeDeleted.first

\* C16: LinkList under concurrent appenders.  Every Append (atomic under the
\* list's mutex) adds its value at the end of what Iter yields and changes no
\* earlier entry, so after any interleaving of the pod tasks' Appends Iter
\* yields every appended value once, in the order the Appends took effect.
C16_AppendOnlyInOrder == []C16_IterYieldsAppends /\ [][C16_AppendStep]_vars

\* three pod tasks appended, and the delete pass iterates the three entries
C16_Witness ==
    /\ main.pc = "delete"
    /\ Len(ListIter(toBeDeleted)) >= 3
    /\ Cardinality(Range(ListIter(toBeDeleted))) >= 3

\* C17 as claimed: two image references that differ only in their tag (one
\* may have none; the registry host may have a port) have the same key under
\* getImageWithoutTag, so the two GetImageDigest calls store one association.
C17_SameRepositorySameKey ==
    (probe.pc = "done" /\ RefBase(probe.a) = RefBase(probe.b))
        => (/\ getImageWithoutTag(probe.a) = getImageWithoutTag(probe.b)
            /\ Cardinality(probe.table) = 1)

\* the check that ran the fetch whose result check t returned
FetcherOf(t) ==
    {f \in CTasks : /\ ImageOf(f) = ImageOf(t)
                    /\ ctask[f].how = "start"
                    /\ ctask[f].flight = ctask[t].flight}

\* C18 as claimed: a GetImageDigest call with pull secrets stores the
\* association before the Resolve of the fetch whose result it returns, also
\* when it joined that fetch.  Associations are never removed, so that
\* Resolve found one.
C18_StoredBeforeResolve ==
    \A t \in CTasks :
        (PodOf(t).ImagePullSecrets # <<>> /\ Returned(ctask[t]))
            => \A f \in FetcherOf(t) : ctask[f].assoc.kind = "assoc"

C19_ReadAfterJoin ==
    main.pc \in {"delete", "done"}
        => (/\ lister.pc = "done"
            /\ \A p \in Pods : ptask[p].pc \in {"idle", "done"}
            /\ \A t \in CTasks : ctask[t].pc \in {"idle", "done"})

C19_AppendAfterChecks ==
    toBeDeleted' # toBeDeleted
        => (/\ main.pc \in {"range", "wait"}
            /\ AppendingNow # {}
            /\ \A p \in AppendingNow : \A t \in ChecksOf(p) :
                  /\ ctask[t].pc \in {"idle", "done"}
                  /\ t[2] \in CheckedStatuses(PodCatalog(p)) => ctask[t].pc = "done")

\* C19: join ordering.  A pod is appended to toBeDeleted only when every
\* check of that pod has returned and while _main has not passed eg.Wait();
\* once _main is in the delete pass the lister, every pod task and every
\* check has returned, so no Append runs during or after the iteration.
C19_JoinOrdering == []C19_ReadAfterJoin /\ [][C19_AppendAfterChecks]_vars

\* the delete pass starts on a sequence that holds a pod with two checks
C19_Witness ==
    /\ main.pc = "delete" /\ main.di = 0
    /\ \E p \in Pods :
          /\ Cardinality(CheckedStatuses(PodCatalog(p))) >= 2
          /\ PodInfo(PodCatalog(p)) \in Range(ListIter(toBeDeleted))

C21_ScanTerminates ==
    <>(podsClosed /\ main.pc \in {"delete", "done"})

\* the whole of an image ID after its first colon
AfterFirstColon(imageID) == SubSeq(imageID, Index(imageID, ":") + 1, Len(imageID))

\* C22 as claimed: for an image ID that holds a colon, the running digest a
\* check compares with the registry's digest is the whole of the image ID
\* after its first colon, so the check reports the pod outdated exactly when
\* that substring differs from the registry's digest.
C22_WholeRestAfterFirstColon ==
    (/\ probe.pc = "checked"
     /\ probe.res.kind = "ok"
     /\ Contains(probe.ImageID, ":"))
        => (/\ probe.currentHash = Ok(AfterFirstColon(probe.ImageID))
            /\ (probe.ret = NeedUpdateErr)
                  <=> (AfterFirstColon(probe.ImageID) # probe.res.val))

\* C23 as claimed: the key Resolve looks up for an image (the resource's full
\* repository string) is the key GetImageDigest stored its association under
\* (the image string without its tag), so the Resolve of an image that was
\* stored with pull secrets finds the association.
C23_ResolveFindsStored ==
    probe.pc = "resolved"
        => (/\ probe.key = getImageWithoutTag(probe.a)
            /\ probe.ok)


====
